---- MODULE Spec2Model ----
(***************************************************************************)
(* Model of generate_csv_from_postman_and_docs.py: the path normalizer,    *)
(* the documentation extractor, the JSON flattener and the report          *)
(* assembly loop of main().                                                *)
(*                                                                         *)
(* Python strings are sequences of one-character strings, so that          *)
(* str.replace, re.sub, startswith, strip and slicing are computed         *)
(* character by character as the interpreter computes them.                *)
(***************************************************************************)
EXTENDS Integers, Sequences

VARIABLES
    pc,             \* position of the run of the component under analysis
    \* -- path normalizer, as called by parse_postman and by the header scan
    ep_url,         \* ep['url'] of a collection endpoint
    doc_url,        \* parts[1] of a documentation header line
    ep_norm,        \* ep['normalized_url']
    doc_norm,       \* current_url computed from the header line
    re_norm,        \* normalize_path applied to ep_norm
    \* -- parse_markdown_responses
    lines,          \* content.split('\n')
    i,              \* index of the outer scan (0-based, as in the code)
    current_method,
    current_url,
    responses,      \* the response example table
    log,            \* history: what each iteration of the outer scan did
    \* -- main
    endpoints,      \* list returned by parse_postman
    idx,            \* position of the for loop over endpoints (0-based)
    rows,           \* rows written after the header row
    \* -- flatten_json
    y,
    parent_key,
    flat

nvars == <<ep_url, doc_url, ep_norm, doc_norm, re_norm>>
dvars == <<lines, i, current_method, current_url, log>>
mvars == <<endpoints, idx, rows>>
fvars == <<y, parent_key, flat>>
vars  == <<pc, nvars, dvars, responses, mvars, fvars>>

----------------------------------------------------------------------------
(* String helpers                                                          *)

Drop(s, n) == SubSeq(s, n + 1, Len(s))

Take(s, n) == SubSeq(s, 1, n)

StartsWith(s, p) == Len(s) >= Len(p) /\ Take(s, Len(p)) = p

RECURSIVE Contains(_, _)
Contains(s, p) ==
    IF Len(s) < Len(p) THEN FALSE
    ELSE IF StartsWith(s, p) THEN TRUE
    ELSE Contains(Tail(s), p)

\* str.replace(old, new): leftmost, non-overlapping, one pass.
RECURSIVE Replace(_, _, _)
Replace(s, old, new) ==
    IF Len(s) < Len(old) THEN s
    ELSE IF StartsWith(s, old) THEN new \o Replace(Drop(s, Len(old)), old, new)
    ELSE <<Head(s)>> \o Replace(Tail(s), old, new)

\* Length of the longest prefix of s made of characters other than c.
RECURSIVE RunNot(_, _)
RunNot(s, c) ==
    IF Len(s) = 0 \/ Head(s) = c THEN 0 ELSE 1 + RunNot(Tail(s), c)

IsSpace(c) == c = " "

RECURSIVE LStrip(_)
LStrip(s) == IF Len(s) > 0 /\ IsSpace(Head(s)) THEN LStrip(Tail(s)) ELSE s

RECURSIVE RStrip(_)
RStrip(s) ==
    IF Len(s) > 0 /\ IsSpace(s[Len(s)]) THEN RStrip(Take(s, Len(s) - 1)) ELSE s

Strip(s) == RStrip(LStrip(s))

RECURSIVE Join(_)
Join(ss) == IF Len(ss) = 0 THEN <<>> ELSE Head(ss) \o Join(Tail(ss))

----------------------------------------------------------------------------
(* normalize_path                                                          *)

BASE_URL    == <<"{","{","b","a","s","e","U","r","l","}","}">>
LOCAL_URL   == <<"{","{","l","o","c","a","l","U","r","l","}","}">>
STAGING_URL == <<"{","{","s","t","a","g","i","n","g","U","r","l","}","}">>
API_V1      == <<"/","a","p","i","/","v","1">>
LOCALHOST   == <<"h","t","t","p",":","/","/","l","o","c","a","l","h","o","s","t",
                 ":","8","7","8","7">> \o API_V1
PARAM       == <<"{","p","a","r","a","m","}">>

\* Length of the match of \{\{[^}]+\}\} at the start of s, 0 if none.  The
\* greedy run cannot give back characters: what follows a shorter run is
\* not "}".
BraceMatchLen(s) ==
    IF Len(s) >= 5 /\ s[1] = "{" /\ s[2] = "{"
    THEN LET r == RunNot(Drop(s, 2), "}")
         IN  IF r >= 1 /\ Len(s) >= r + 4 /\ s[r + 3] = "}" /\ s[r + 4] = "}"
             THEN r + 4 ELSE 0
    ELSE 0

\* Length of the match of :[^/]+ at the start of s, 0 if none.
ColonMatchLen(s) ==
    IF Len(s) >= 2 /\ s[1] = ":"
    THEN LET r == RunNot(Tail(s), "/") IN IF r >= 1 THEN r + 1 ELSE 0
    ELSE 0

\* re.sub(r'\{\{[^}]+\}\}', '{param}', path)
RECURSIVE SubBrace(_)
SubBrace(s) ==
    IF Len(s) = 0 THEN s
    ELSE LET n == BraceMatchLen(s)
         IN  IF n > 0 THEN PARAM \o SubBrace(Drop(s, n))
             ELSE <<Head(s)>> \o SubBrace(Tail(s))

\* re.sub(r':[^/]+', '{param}', path)
RECURSIVE SubColon(_)
SubColon(s) ==
    IF Len(s) = 0 THEN s
    ELSE LET n == ColonMatchLen(s)
         IN  IF n > 0 THEN PARAM \o SubColon(Drop(s, n))
             ELSE <<Head(s)>> \o SubColon(Tail(s))

StripPrefixes(path) ==
    Replace(Replace(Replace(Replace(Replace(path,
        BASE_URL, <<>>), LOCAL_URL, <<>>), STAGING_URL, <<>>),
        LOCALHOST, <<>>), API_V1, <<>>)

LeadingSlash(path) == IF StartsWith(path, <<"/">>) THEN path ELSE <<"/">> \o path

normalize_path(path) == Strip(LeadingSlash(SubColon(SubBrace(StripPrefixes(path)))))

----------------------------------------------------------------------------
(* Values the variables of a component hold while another one runs.        *)

NONE == <<"None">>      \* Python's None where a string is expected

IdleN == /\ ep_url = <<>> /\ doc_url = <<>>
         /\ ep_norm = NONE /\ doc_norm = NONE /\ re_norm = NONE

IdleD == /\ lines = <<>> /\ i = 0 /\ log = <<>>
         /\ current_method = NONE /\ current_url = NONE

IdleM == endpoints = <<>> /\ idx = 0 /\ rows = <<>>

IdleF == y = <<>> /\ parent_key = <<>> /\ flat = <<>>

----------------------------------------------------------------------------
(* The path normalizer on the URL of a collection endpoint and on the path *)
(* of a documentation header.                                              *)

MaxChunks == 3

Chunks == { <<"/">>, <<"/","a","p","i">>, <<"/","v","1">>, API_V1, BASE_URL,
            <<"/","u","s","e","r","s">>, <<"{","{">>, <<"}","}">>, <<":">>,
            <<" ">>, <<".","j","s","o","n">> }

ParamNames == { <<"i","d">> }

ChunkSeqs == UNION { [1..n -> Chunks] : n \in 0..MaxChunks }

BraceParam(name) == <<"{","{">> \o name \o <<"}","}">>

ColonParam(name) == <<":">> \o name

InitNormalize ==
    /\ pc = "n_start"
    /\ \E cs \in ChunkSeqs :
          \/ ep_url = Join(cs) /\ doc_url = Join(cs)
          \/ \E p \in 0..Len(cs), name \in ParamNames :
                /\ ep_url  = Join(Take(cs, p)) \o BraceParam(name) \o Join(Drop(cs, p))
                /\ doc_url = Join(Take(cs, p)) \o ColonParam(name) \o Join(Drop(cs, p))
    /\ ep_norm = NONE /\ doc_norm = NONE /\ re_norm = NONE
    /\ IdleD /\ IdleM /\ IdleF /\ responses = <<>>

\* parse_postman: 'normalized_url': normalize_path(url)
ParsePostmanUrl ==
    /\ pc = "n_start"
    /\ ep_norm' = normalize_path(ep_url)
    /\ pc' = "n_ep"
    /\ UNCHANGED <<ep_url, doc_url, doc_norm, re_norm, dvars, responses, mvars, fvars>>

\* parse_markdown_responses: current_url = normalize_path(parts[1])
ParseHeaderUrl ==
    /\ pc = "n_ep"
    /\ doc_norm' = normalize_path(doc_url)
    /\ pc' = "n_doc"
    /\ UNCHANGED <<ep_url, doc_url, ep_norm, re_norm, dvars, responses, mvars, fvars>>

\* normalize_path on a path that is already normalized
Renormalize ==
    /\ pc = "n_doc"
    /\ re_norm' = normalize_path(ep_norm)
    /\ pc' = "n_done"
    /\ UNCHANGED <<ep_url, doc_url, ep_norm, doc_norm, dvars, responses, mvars, fvars>>

NextNormalize == ParsePostmanUrl \/ ParseHeaderUrl \/ Renormalize

SpecNormalize == InitNormalize /\ [][NextNormalize]_vars

----------------------------------------------------------------------------
(* JSON values as json.loads returns them.  Every value is a record of the *)
(* same shape: k is the Python type, n the number (a bool as 0/1, a float  *)
(* in tenths), s the characters of a str, ks and vs the keys and values of *)
(* a dict in insertion order, vs alone the elements of a list.            *)

JVal(k, n, s, ks, vs) == [k |-> k, n |-> n, s |-> s, ks |-> ks, vs |-> vs]

JNull        == JVal("null", 0, <<>>, <<>>, <<>>)
JBool(b)     == JVal("bool", IF b THEN 1 ELSE 0, <<>>, <<>>, <<>>)
JInt(n)      == JVal("int", n, <<>>, <<>>, <<>>)
JFloat(t)    == JVal("float", t, <<>>, <<>>, <<>>)
JStr(s)      == JVal("str", 0, s, <<>>, <<>>)
JList(vs)    == JVal("list", 0, <<>>, <<>>, vs)
JDict(ks, vs) == JVal("dict", 0, <<>>, ks, vs)

\* bool(val): what "if val" and "not val" test
Truthy(v) ==
    CASE v.k = "null"  -> FALSE
      [] v.k = "bool"  -> v.n # 0
      [] v.k = "int"   -> v.n # 0
      [] v.k = "float" -> v.n # 0
      [] v.k = "str"   -> Len(v.s) > 0
      [] v.k = "list"  -> Len(v.vs) > 0
      [] v.k = "dict"  -> Len(v.ks) > 0

get_type_name(val) ==
    CASE val.k = "bool"  -> <<"b","o","o","l","e","a","n">>
      [] val.k = "int"   -> <<"i","n","t","e","g","e","r">>
      [] val.k = "float" -> <<"f","l","o","a","t">>
      [] val.k = "str"   -> <<"s","t","r","i","n","g">>
      [] val.k = "list"  -> <<"a","r","r","a","y">>
      [] val.k = "dict"  -> <<"o","b","j","e","c","t">>
      [] val.k = "null"  -> <<"n","u","l","l">>

DIGITS == <<"0","1","2","3","4","5","6","7","8","9">>

RECURSIVE NatStr(_)
NatStr(n) == IF n < 10 THEN <<DIGITS[n + 1]>>
             ELSE NatStr(n \div 10) \o <<DIGITS[(n % 10) + 1]>>

IntStr(n) == IF n < 0 THEN <<"-">> \o NatStr(-n) ELSE NatStr(n)

\* repr(v), as str() of a list or dict renders its members
RECURSIVE PyRepr(_)
RECURSIVE ReprElems(_)
RECURSIVE ReprEntries(_, _)
PyRepr(v) ==
    CASE v.k = "null"  -> <<"N","o","n","e">>
      [] v.k = "bool"  -> IF v.n # 0 THEN <<"T","r","u","e">>
                                     ELSE <<"F","a","l","s","e">>
      [] v.k = "int"   -> IntStr(v.n)
      [] v.k = "float" -> LET a == IF v.n < 0 THEN -v.n ELSE v.n
                          IN  (IF v.n < 0 THEN <<"-">> ELSE <<>>)
                              \o NatStr(a \div 10) \o <<".">> \o NatStr(a % 10)
      [] v.k = "str"   -> <<"'">> \o v.s \o <<"'">>
      [] v.k = "list"  -> <<"[">> \o ReprElems(v.vs) \o <<"]">>
      [] v.k = "dict"  -> <<"{">> \o ReprEntries(v.ks, v.vs) \o <<"}">>

ReprElems(vs) ==
    IF Len(vs) = 0 THEN <<>>
    ELSE IF Len(vs) = 1 THEN PyRepr(vs[1])
    ELSE PyRepr(vs[1]) \o <<",", " ">> \o ReprElems(Tail(vs))

ReprEntries(ks, vs) ==
    IF Len(ks) = 0 THEN <<>>
    ELSE LET e == <<"'">> \o ks[1] \o <<"'", ":", " ">> \o PyRepr(vs[1])
         IN  IF Len(ks) = 1 THEN e
             ELSE e \o <<",", " ">> \o ReprEntries(Tail(ks), Tail(vs))

\* str(v)
PyStr(v) == IF v.k = "str" THEN v.s ELSE PyRepr(v)

----------------------------------------------------------------------------
(* flatten_json.  A Python dict of fields is a sequence of [key, val] in   *)
(* insertion order.                                                        *)

Item(key, val) == [key |-> key, val |-> val]

\* d[key] = val
DictSet(d, it) ==
    IF \E p \in 1..Len(d) : d[p].key = it.key
    THEN [p \in 1..Len(d) |-> IF d[p].key = it.key THEN it ELSE d[p]]
    ELSE Append(d, it)

\* dict(items)
RECURSIVE DictUpdate(_, _)
DictUpdate(d, items) ==
    IF Len(items) = 0 THEN d
    ELSE DictUpdate(DictSet(d, Head(items)), Tail(items))

DictOf(items) == DictUpdate(<<>>, items)

ARRAY_MARK == <<"[", "]">>

\* new_key = f"{parent_key}{sep}{k}" if parent_key else k
NewKey(pk, k) == IF Len(pk) > 0 THEN pk \o <<".">> \o k ELSE k

RECURSIVE flatten_json(_, _)
RECURSIVE FlattenEntries(_, _, _)

\* the items a non-empty list contributes
ListItems(yv, pk) ==
    IF yv.vs[1].k = "dict"
    THEN flatten_json(yv.vs[1], pk \o ARRAY_MARK)
    ELSE <<Item(pk \o ARRAY_MARK, yv.vs[1])>>

flatten_json(yv, pk) ==
    IF yv.k = "dict" THEN DictOf(FlattenEntries(yv.ks, yv.vs, pk))
    ELSE IF yv.k = "list"
         THEN IF Len(yv.vs) > 0 THEN DictOf(ListItems(yv, pk))
              ELSE DictOf(<<Item(pk \o ARRAY_MARK, JList(<<>>))>>)
    ELSE DictOf(<<Item(pk, yv)>>)

\* for k, v in y.items(): items.extend(flatten_json(v, new_key).items())
FlattenEntries(ks, vs, pk) ==
    IF Len(ks) = 0 THEN <<>>
    ELSE flatten_json(vs[1], NewKey(pk, ks[1]))
         \o FlattenEntries(Tail(ks), Tail(vs), pk)

----------------------------------------------------------------------------
(* flatten_json on bounded JSON values.                                    *)

MaxDepth == 2       \* nesting of the values given to flatten_json
MaxLen   == 2       \* elements of a list, entries of a dict

EMPTY_LIST == JList(<<>>)
EMPTY_DICT == JDict(<<>>, <<>>)

KEY_A  == <<"a">>
KEY_B  == <<"b">>
STR_OK == <<"o","k">>
STR_NA == <<"N","/","A">>

FlatLeaves == { JNull, JInt(1), JStr(STR_OK), EMPTY_LIST, EMPTY_DICT }

\* sequences of 1..n distinct keys
KeySeqs(keys, n) ==
    { ks \in UNION { [1..m -> keys] : m \in 1..n } :
        \A p, q \in 1..Len(ks) : p # q => ks[p] # ks[q] }

ListsOf(S, n) == { JList(vs) : vs \in UNION { [1..m -> S] : m \in 1..n } }

DictsOf(S, keys, n) ==
    UNION { { JDict(ks, vs) : vs \in [1..Len(ks) -> S] } : ks \in KeySeqs(keys, n) }

RECURSIVE Values(_)
Values(d) ==
    IF d = 0 THEN FlatLeaves
    ELSE LET S == Values(d - 1)
         IN  S \cup ListsOf(S, MaxLen) \cup DictsOf(S, {KEY_A, KEY_B}, MaxLen)

Prefixes == { <<>>, <<"p">> }

InitFlatten ==
    /\ pc = "f_start"
    /\ y \in Values(MaxDepth)
    /\ parent_key \in Prefixes
    /\ flat = <<>>
    /\ IdleN /\ IdleD /\ IdleM /\ responses = <<>>

Flatten ==
    /\ pc = "f_start"
    /\ flat' = flatten_json(y, parent_key)
    /\ pc' = "f_done"
    /\ UNCHANGED <<y, parent_key, nvars, dvars, responses, mvars>>

NextFlatten == Flatten

SpecFlatten == InitFlatten /\ [][NextFlatten]_vars

----------------------------------------------------------------------------
(* main: the report assembly loop.                                         *)

TRUNC == 100

NA       == STR_NA
RESPONSE == <<"r","e","s","p","o","n","s","e">>

\* str(v)[:100]
Trunc(s) == IF Len(s) > TRUNC THEN SubSeq(s, 1, TRUNC) ELSE s

\* key = f"{method} {norm_url}"
Key(method, url) == method \o <<" ">> \o url

\* responses.get(key): None when the key is absent
Get(table, key) == IF key \in DOMAIN table THEN table[key] ELSE JNull

\* responses[key] = resp_obj
Put(table, key, val) ==
    [k \in DOMAIN table \cup {key} |-> IF k = key THEN val ELSE table[k]]

\* if not resp_data:
NoResponse(resp_data) == ~Truthy(resp_data)

\* the test without its truthiness half: isinstance(ep['request_body'], dict)
BodyUsable_AnyDict(body) == body.k = "dict"

\* if ep['request_body'] and isinstance(ep['request_body'], dict):
BodyUsable(body) == Truthy(body) /\ body.k = "dict"

\* lines 200-209: the example data and its source tag
ChooseExample(table, ep) ==
    LET resp_data == Get(table, Key(ep.method, ep.normalized_url))
    IN  IF NoResponse(resp_data)
        THEN IF BodyUsable(ep.request_body)
             THEN [data |-> ep.request_body, source |-> "Inferred from Request"]
             ELSE [data |-> resp_data, source |-> "No Example"]
        ELSE [data |-> resp_data, source |-> "API Docs"]

Row(ep, field, type, value, source) ==
    [name |-> ep.name, method |-> ep.method, url |-> ep.url,
     field |-> field, type |-> type, value |-> value, source |-> source]

\* lines 211-219: the rows written for one endpoint
EmitRows(ep, resp_data, source) ==
    IF Truthy(resp_data)
    THEN IF resp_data.k \in {"dict", "list"}
         THEN LET fl == flatten_json(resp_data, <<>>)
              IN  [p \in 1..Len(fl) |->
                     Row(ep, fl[p].key, get_type_name(fl[p].val),
                         Trunc(PyStr(fl[p].val)), source)]
         ELSE <<Row(ep, RESPONSE, get_type_name(resp_data),
                    Trunc(PyStr(resp_data)), source)>>
    ELSE <<Row(ep, NA, NA, NA, source)>>

\* one iteration of "for ep in endpoints"; rows[e] are the rows of the
\* e-th endpoint, the file holds them one group after the other
WriteRows ==
    /\ pc = "m_loop"
    /\ idx < Len(endpoints)
    /\ LET ep == endpoints[idx + 1]
           ex == ChooseExample(responses, ep)
       IN  rows' = Append(rows, EmitRows(ep, ex.data, ex.source))
    /\ idx' = idx + 1
    /\ UNCHANGED <<pc, endpoints, responses, nvars, dvars, fvars>>

\* the loop is over: print(f"Generated {csv_file}")
Finish ==
    /\ pc = "m_loop"
    /\ idx = Len(endpoints)
    /\ pc' = "m_done"
    /\ UNCHANGED <<endpoints, idx, rows, responses, nvars, dvars, fvars>>

MaxEndpoints == 2
MaxFields    == 2   \* elements or entries of a documented example

LONG_STR == [p \in 1..(TRUNC + 1) |-> "x"]

Scalars == { JNull, JBool(FALSE), JBool(TRUE), JInt(0), JInt(1), JFloat(0),
             JFloat(15), JStr(<<>>), JStr(STR_OK), JStr(STR_NA), JStr(LONG_STR) }

ExampleLeaves == { JInt(1), JStr(STR_NA), EMPTY_LIST, EMPTY_DICT }

\* what a documented response block may hold
Examples ==
    Scalars \cup {EMPTY_LIST, EMPTY_DICT}
    \cup ListsOf(ExampleLeaves, MaxFields)
    \cup DictsOf(ExampleLeaves, {KEY_A, STR_NA}, MaxFields)

\* what parse_postman leaves in 'request_body': None without a raw body,
\* the parsed JSON, or the raw string
Bodies == { JNull, EMPTY_DICT, JDict(<<KEY_A>>, <<JInt(1)>>), JStr(STR_OK),
            JList(<<JInt(1)>>) }

GET    == <<"G","E","T">>
URL_U  == <<"/","u">>
URL_V  == <<"/","v">>

Endpoint(method, url, body) ==
    [name |-> "route", method |-> method, url |-> url,
     normalized_url |-> normalize_path(url), request_body |-> body]

EndpointSet == { Endpoint(GET, u, b) : u \in {URL_U, URL_V}, b \in Bodies }

Tables == { <<>> } \cup { Put(<<>>, Key(GET, URL_U), v) : v \in Examples }

InitMain ==
    /\ pc = "m_loop"
    /\ responses \in Tables
    /\ endpoints \in UNION { [1..n -> EndpointSet] : n \in 0..MaxEndpoints }
    /\ idx = 0
    /\ rows = <<>>
    /\ IdleN /\ IdleD /\ IdleF

NextMain == WriteRows \/ Finish

SpecMain == InitMain /\ [][NextMain]_vars

----------------------------------------------------------------------------
(* json.loads on the text of a fenced block.  The grammar is the one of    *)
(* the json module for null, true, false, integers, decimals (kept to one  *)
(* fractional digit, as the documents here write them), strings without    *)
(* escapes, arrays and objects.  A result is [ok, val, rest]; ok = FALSE   *)
(* is the JSONDecodeError that parse_markdown_responses catches.           *)

NL == "\n"

IsWs(c) == c \in {" ", NL, "\t", "\r"}

RECURSIVE SkipWs(_)
SkipWs(s) == IF Len(s) > 0 /\ IsWs(Head(s)) THEN SkipWs(Tail(s)) ELSE s

IsDigit(c) == \E d \in 1..10 : DIGITS[d] = c

DigitVal(c) == (CHOOSE d \in 1..10 : DIGITS[d] = c) - 1

RECURSIVE DigitRun(_)
DigitRun(s) == IF Len(s) > 0 /\ IsDigit(Head(s)) THEN 1 + DigitRun(Tail(s)) ELSE 0

RECURSIVE NatVal(_)
NatVal(ds) == IF Len(ds) = 0 THEN 0
              ELSE NatVal(Take(ds, Len(ds) - 1)) * 10 + DigitVal(ds[Len(ds)])

Parsed(val, rest) == [ok |-> TRUE, val |-> val, rest |-> rest]

ParseError == [ok |-> FALSE, val |-> JNull, rest |-> <<>>]

LIT_NULL  == <<"n","u","l","l">>
LIT_TRUE  == <<"t","r","u","e">>
LIT_FALSE == <<"f","a","l","s","e">>

\* -?(0|[1-9]\d*)(\.\d+)?
ParseNumber(s) ==
    LET neg  == Len(s) > 0 /\ Head(s) = "-"
        body == IF neg THEN Tail(s) ELSE s
        run  == DigitRun(body)
        ilen == IF run > 0 /\ Head(body) = "0" THEN 1 ELSE run
        int  == NatVal(Take(body, ilen))
        more == Drop(body, ilen)
        flen == IF Len(more) > 0 /\ Head(more) = "." THEN DigitRun(Tail(more)) ELSE 0
        sign == IF neg THEN -1 ELSE 1
    IN  IF run = 0 THEN ParseError
        ELSE IF flen > 0
             THEN Parsed(JFloat(sign * (int * 10 + DigitVal(more[2]))),
                         Drop(more, flen + 1))
             ELSE Parsed(JInt(sign * int), more)

\* "..." with no escape; a control character ends the parse with an error
ParseString(s) ==
    LET body == Tail(s)
        run  == RunNot(body, "\"")
        str  == Take(body, run)
    IN  IF run = Len(body) \/ \E p \in 1..run : str[p] \in {NL, "\t", "\r", "\\"}
        THEN ParseError
        ELSE Parsed(JStr(str), Drop(body, run + 1))

RECURSIVE ParseValue(_)
RECURSIVE ParseElems(_, _)
RECURSIVE ParseMembers(_, _)

ParseValue(s) ==
    IF Len(s) = 0 THEN ParseError
    ELSE CASE StartsWith(s, LIT_NULL)  -> Parsed(JNull, Drop(s, 4))
           [] StartsWith(s, LIT_TRUE)  -> Parsed(JBool(TRUE), Drop(s, 4))
           [] StartsWith(s, LIT_FALSE) -> Parsed(JBool(FALSE), Drop(s, 5))
           [] Head(s) = "\""           -> ParseString(s)
           [] Head(s) = "["  ->
                LET r == SkipWs(Tail(s))
                IN  IF StartsWith(r, <<"]">>) THEN Parsed(EMPTY_LIST, Tail(r))
                    ELSE ParseElems(r, <<>>)
           [] Head(s) = "{"  ->
                LET r == SkipWs(Tail(s))
                IN  IF StartsWith(r, <<"}">>) THEN Parsed(EMPTY_DICT, Tail(r))
                    ELSE ParseMembers(r, <<>>)
           [] Head(s) = "-" \/ IsDigit(Head(s)) -> ParseNumber(s)
           [] OTHER -> ParseError

\* value (, value)* ] with the values read so far in acc
ParseElems(s, acc) ==
    LET v == ParseValue(s)
        r == SkipWs(v.rest)
    IN  IF ~v.ok THEN ParseError
        ELSE IF StartsWith(r, <<",">>)
             THEN ParseElems(SkipWs(Tail(r)), Append(acc, v.val))
        ELSE IF StartsWith(r, <<"]">>)
             THEN Parsed(JList(Append(acc, v.val)), Tail(r))
        ELSE ParseError

\* "key" : value (, "key" : value)* } with the entries read so far in acc
ParseMembers(s, acc) ==
    LET k  == IF StartsWith(s, <<"\"">>) THEN ParseString(s) ELSE ParseError
        c  == SkipWs(k.rest)
        v  == IF k.ok /\ StartsWith(c, <<":">>) THEN ParseValue(SkipWs(Tail(c)))
              ELSE ParseError
        r  == SkipWs(v.rest)
        d  == DictSet(acc, Item(k.val.s, v.val))
    IN  IF ~v.ok THEN ParseError
        ELSE IF StartsWith(r, <<",">>) THEN ParseMembers(SkipWs(Tail(r)), d)
        ELSE IF StartsWith(r, <<"}">>)
             THEN Parsed(JDict([p \in 1..Len(d) |-> d[p].key],
                               [p \in 1..Len(d) |-> d[p].val]), Tail(r))
        ELSE ParseError

\* json.loads(json_str): the whole text is one value
json_loads(text) ==
    LET v == ParseValue(SkipWs(text))
    IN  IF v.ok /\ Len(SkipWs(v.rest)) = 0 THEN v ELSE ParseError

----------------------------------------------------------------------------
(* parse_markdown_responses                                                *)

RESPONSE_MARK == <<"*","*","R","e","s","p","o","n","s","e">>
BACKTICK      == "backtick"   \* the grave accent, which a TLA+ string cannot hold
FENCE         == <<BACKTICK, BACKTICK, BACKTICK>>
FENCE_JSON    == FENCE \o <<"j","s","o","n">>

HeaderPrefixes ==
    { <<"G","E","T"," ","/">>, <<"P","O","S","T"," ","/">>,
      <<"P","U","T"," ","/">>, <<"D","E","L","E","T","E"," ","/">>,
      <<"P","A","T","C","H"," ","/">> }

\* line.startswith('GET /') or ... or line.startswith('PATCH /')
IsHeader(line) == \E p \in HeaderPrefixes : StartsWith(line, p)

\* parts = line.split(' ', 1) of a line that holds a space
Parts(line) ==
    LET n == RunNot(line, " ") IN <<Take(line, n), Drop(line, n + 1)>>

\* '\n'.join(json_lines)
RECURSIVE JoinLines(_)
JoinLines(ls) ==
    IF Len(ls) = 0 THEN <<>>
    ELSE IF Len(ls) = 1 THEN ls[1]
    ELSE ls[1] \o <<NL>> \o JoinLines(Tail(ls))

\* f"{x}" of a string or of None
Fmt(x) == IF x = NONE THEN <<"N","o","n","e">> ELSE x

\* The inner while loop, from index j (0-based) with found_json and
\* json_lines as given: where it stops, whether on a closing fence, the
\* index of the first fenced-JSON opener met, and the lines collected.
RECURSIVE Lookahead(_, _, _, _, _)
Lookahead(ls, j, found, open, json_lines) ==
    IF j >= Len(ls)
    THEN [j |-> j, closed |-> FALSE, open |-> open, json_lines |-> json_lines]
    ELSE LET l == ls[j + 1]
         IN  IF StartsWith(Strip(l), FENCE_JSON)
             THEN Lookahead(ls, j + 1, TRUE, IF open < 0 THEN j ELSE open, json_lines)
             ELSE IF StartsWith(Strip(l), FENCE) /\ found
             THEN [j |-> j, closed |-> TRUE, open |-> open, json_lines |-> json_lines]
             ELSE Lookahead(ls, j + 1, found, open,
                            IF found THEN Append(json_lines, l) ELSE json_lines)

\* the assignment without the try around json.loads: whatever the parse
\* left is stored
Recorded_Unguarded(look, res) == look.closed

\* The try block ran to the assignment: the fence closed the block and
\* json.loads raised nothing.
Recorded(look, res) == look.closed /\ res.ok

\* i = j; i += 1 after a lookahead, i += 1 alone otherwise
NextLine(mark, look, cur) == IF mark THEN look.j + 1 ELSE cur + 1

Event(what, at, open, close, key) ==
    [what |-> what, at |-> at, open |-> open, close |-> close, key |-> key]

\* One iteration of "while i < len(lines)": the header test, then the
\* response test with its whole lookahead, then i += 1.
ScanLine ==
    /\ pc = "d_scan"
    /\ i < Len(lines)
    /\ LET line == Strip(lines[i + 1])
           hdr  == IsHeader(line)
           cm   == IF hdr THEN Parts(line)[1] ELSE current_method
           cu   == IF hdr THEN normalize_path(Parts(line)[2]) ELSE current_url
           mark == Contains(line, RESPONSE_MARK)
           look == Lookahead(lines, i + 1, FALSE, -1, <<>>)
           res  == json_loads(JoinLines(look.json_lines))
           key  == Key(Fmt(cm), Fmt(cu))
       IN  /\ current_method' = cm
           /\ current_url' = cu
           /\ responses' = IF mark /\ Recorded(look, res)
                           THEN Put(responses, key, res.val) ELSE responses
           /\ i' = NextLine(mark, look, i)
           /\ log' = Append(log,
                 IF mark
                 THEN IF look.closed
                      THEN IF Recorded(look, res)
                           THEN Event("recorded", i, look.open, look.j, key)
                           ELSE Event("discarded", i, look.open, look.j, key)
                      ELSE Event("unclosed", i, look.open, -1, key)
                 ELSE Event(IF hdr THEN "header" ELSE "text", i, -1, -1, key))
    /\ UNCHANGED <<pc, lines, nvars, mvars, fvars>>

\* return responses, and main goes on to the assembly loop
ReturnResponses ==
    /\ pc = "d_scan"
    /\ i >= Len(lines)
    /\ pc' = "m_loop"
    /\ UNCHANGED <<dvars, responses, nvars, mvars, fvars>>

MaxSegs == 4        \* pieces a documentation text is assembled from

LINE_GET   == <<"G","E","T"," ","/","u","/",":","i","d">>
LINE_POST  == <<"P","O","S","T"," ","/","v">>
LINE_RESP  == RESPONSE_MARK \o <<":","*","*">>
LINE_GOOD  == <<"{","\"","i","d","\"",":"," ","1","}">>
LINE_BAD   == <<"{","\"","i","d","\"",":"," ","1",",","}">>

GoodBlock == <<LINE_RESP, FENCE_JSON, LINE_GOOD, FENCE>>
BadBlock  == <<LINE_RESP, FENCE_JSON, LINE_BAD, FENCE>>

Segments == { <<LINE_GET>>, <<LINE_POST>>, <<LINE_RESP>>, <<FENCE_JSON>>,
              <<FENCE>>, <<LINE_GOOD>>, <<LINE_BAD>>, GoodBlock, BadBlock }

Documents == { Join(ss) : ss \in UNION { [1..n -> Segments] : n \in 1..MaxSegs } }

POST     == <<"P","O","S","T">>
EP_GET   == BASE_URL \o <<"/","u","/">> \o BraceParam(<<"i","d">>)
EP_POST  == BASE_URL \o API_V1 \o <<"/","v">>

\* the collection read by parse_postman before the documentation is parsed
DocEndpoints ==
    << Endpoint(GET, EP_GET, JNull),
       Endpoint(POST, EP_POST, JDict(<<KEY_A>>, <<JInt(1)>>)) >>

InitDoc ==
    /\ pc = "d_scan"
    /\ lines \in Documents
    /\ i = 0
    /\ current_method = NONE
    /\ current_url = NONE
    /\ responses = <<>>
    /\ log = <<>>
    /\ endpoints = DocEndpoints
    /\ idx = 0
    /\ rows = <<>>
    /\ IdleN /\ IdleF

NextDoc == ScanLine \/ ReturnResponses \/ WriteRows \/ Finish

SpecDoc == InitDoc /\ [][NextDoc]_vars

----------------------------------------------------------------------------
(* Properties of the report assembly loop, under SpecMain.                 *)

\* the endpoints main has written rows for
Done == 1..Len(rows)

KeyOf(ep) == Key(ep.method, ep.normalized_url)

Documented(ep) == KeyOf(ep) \in DOMAIN responses

IsScalar(v) == v.k \notin {"dict", "list"}

IsNARow(r) == r.field = NA /\ r.type = NA /\ r.value = NA

\* C1: the source tag of the rows of an endpoint follows the matching
\* policy alone: a key present in the table gives "API Docs" on every row,
\* whatever the documented value; otherwise a request body that is a JSON
\* object gives "Inferred from Request" on every row; otherwise there is
\* exactly one row, all "N/A", with source "No Example".
C1_SourceByPolicy ==
    \A e \in Done :
        LET ep == endpoints[e]
        IN  IF Documented(ep)
            THEN \A p \in 1..Len(rows[e]) : rows[e][p].source = "API Docs"
            ELSE IF ep.request_body.k = "dict"
            THEN \A p \in 1..Len(rows[e]) :
                    rows[e][p].source = "Inferred from Request"
            ELSE /\ Len(rows[e]) = 1
                 /\ IsNARow(rows[e][1])
                 /\ \E q \in 1..Len(rows[e]) : rows[e][q].source = "No Example"

\* C2: an endpoint whose documented example is a bare scalar (string,
\* number, boolean or null) gets exactly one row, with field "response",
\* the type of the scalar and its string rendering cut to 100 characters.
C2_ScalarRow ==
    \A e \in Done :
        LET ep == endpoints[e]
        IN  Documented(ep) /\ IsScalar(responses[KeyOf(ep)]) =>
               /\ Len(rows[e]) = 1
               /\ rows[e][1].field = RESPONSE
               /\ rows[e][1].type = get_type_name(responses[KeyOf(ep)])
               /\ rows[e][1].value = Trunc(PyStr(responses[KeyOf(ep)]))

\* C3: every endpoint gets at least one row, and an endpoint whose example
\* data is an object or an array gets as many rows as flatten_json yields
\* fields for it, which is at least one.
C3_RowCount ==
    \A e \in Done :
        LET ep == endpoints[e]
            ex == ChooseExample(responses, ep)
        IN  /\ Len(rows[e]) >= 1
            /\ ex.source # "No Example" /\ ~IsScalar(ex.data) =>
                  /\ Len(rows[e]) = Len(flatten_json(ex.data, <<>>))
                  /\ Len(flatten_json(ex.data, <<>>)) >= 1

\* C10: a row has source "No Example" if and only if its field, type and
\* value are all "N/A"; a row from the documentation or from a request body
\* never carries the three placeholders, and a "No Example" row never
\* carries a flattened field or the "response" field.
C10_NoExampleIffNA ==
    \A e \in Done : \A p \in 1..Len(rows[e]) :
        LET r == rows[e][p]
        IN  /\ r.source \in {"API Docs", "Inferred from Request", "No Example"}
            /\ r.source = "No Example" <=> IsNARow(r)
            /\ r.source = "No Example" => r.field # RESPONSE /\ Len(rows[e]) = 1

\* C10's case: the loop has written a "No Example" row for one endpoint and,
\* for another, a documented row whose field and value read "N/A".
C10_Witness ==
    /\ pc = "m_done"
    /\ \E e \in Done : \E p \in 1..Len(rows[e]) :
          rows[e][p].source = "No Example" /\ IsNARow(rows[e][p])
    /\ \E e \in Done : \E p \in 1..Len(rows[e]) :
          /\ rows[e][p].source = "API Docs"
          /\ rows[e][p].field = NA
          /\ rows[e][p].value = NA

----------------------------------------------------------------------------
(* Properties of normalize_path, under SpecNormalize.                      *)

ExactlyOneSlash(s) ==
    /\ Len(s) >= 1 /\ s[1] = "/"
    /\ Len(s) >= 2 => s[2] # "/"

\* a colon that starts a parameter: one that :[^/]+ matches
HasColonParam(s) == \E p \in 1..(Len(s) - 1) : s[p] = ":" /\ s[p + 1] # "/"

\* C4: normalize_path is idempotent: normalizing a normalized path returns
\* it unchanged.
C4_Idempotent == pc = "n_done" => re_norm = ep_norm

\* C5: every result of normalize_path starts with exactly one "/" and holds
\* no "{{", no "}}" and no colon-prefixed parameter.
C5_NormalForm ==
    pc \in {"n_ep", "n_doc", "n_done"} =>
        /\ ExactlyOneSlash(ep_norm)
        /\ ~Contains(ep_norm, <<"{","{">>)
        /\ ~Contains(ep_norm, <<"}","}">>)
        /\ ~HasColonParam(ep_norm)

\* C6: two paths that differ only in how one parameter is written, ":name"
\* in one and "{{name}}" in the other at the same place, normalize to the
\* same string, whatever text surrounds the parameter.
C6_SameKey == pc \in {"n_doc", "n_done"} => ep_norm = doc_norm

----------------------------------------------------------------------------
(* Properties of flatten_json, under SpecFlatten.                          *)

\* C9: flattening a non-empty array under a prefix gives exactly what
\* flattening its first element under prefix + "[]" gives, whatever the
\* first element is; later elements do not count.
C9_FirstElement ==
    pc = "f_done" /\ y.k = "list" /\ Len(y.vs) > 0 =>
        flat = flatten_json(y.vs[1], parent_key \o ARRAY_MARK)

----------------------------------------------------------------------------
(* Properties of parse_markdown_responses, under SpecDoc.  Lines are       *)
(* counted from 0, as i and j are.                                         *)

LineAt(k)   == Strip(lines[k + 1])
HeaderAt(k) == IsHeader(LineAt(k))
MarkerAt(k) == Contains(LineAt(k), RESPONSE_MARK)
OpenerAt(k) == StartsWith(LineAt(k), FENCE_JSON)
CloserAt(k) == StartsWith(LineAt(k), FENCE) /\ ~OpenerAt(k)

HeaderKey(h) == Key(Parts(LineAt(h))[1], normalize_path(Parts(LineAt(h))[2]))

Least(S) == CHOOSE m \in S : \A n \in S : m <= n

\* the fenced JSON block that follows the marker on line m, if there is one
OpenersAfter(m) == { o \in (m + 1)..(Len(lines) - 1) : OpenerAt(o) }
ClosersAfter(o) == { c \in (o + 1)..(Len(lines) - 1) : CloserAt(c) }
HasBlock(m)  == OpenersAfter(m) # {} /\ ClosersAfter(Least(OpenersAfter(m))) # {}
BlockOpen(m)  == Least(OpenersAfter(m))
BlockClose(m) == Least(ClosersAfter(BlockOpen(m)))

\* the lines of the block, opener lines left out
RECURSIVE BlockLines(_, _)
BlockLines(from, to) ==
    IF from >= to THEN <<>>
    ELSE (IF OpenerAt(from) THEN <<>> ELSE <<lines[from + 1]>>)
         \o BlockLines(from + 1, to)

BlockFails(m) ==
    ~json_loads(JoinLines(BlockLines(BlockOpen(m) + 1, BlockClose(m)))).ok

\* a header line, a marker line, an opener, one line of valid JSON and a
\* closing fence, on five consecutive lines from line h
PairAt(h) ==
    /\ h + 4 <= Len(lines) - 1
    /\ HeaderAt(h) /\ ~MarkerAt(h)
    /\ MarkerAt(h + 1) /\ ~HeaderAt(h + 1)
    /\ OpenerAt(h + 2)
    /\ ~StartsWith(LineAt(h + 3), FENCE) /\ json_loads(lines[h + 4]).ok
    /\ CloserAt(h + 4)

\* the iteration on a marker line whose block fails to parse leaves the
\* table as it was and moves the scan to the line after the closing fence
C7_Step ==
    pc = "d_scan" /\ i < Len(lines) /\ MarkerAt(i) /\ HasBlock(i) /\ BlockFails(i) =>
        /\ responses' = responses
        /\ i' = BlockClose(i) + 1
        /\ pc' = "d_scan"

\* a pair that the resumed scan reaches line by line is in the table when
\* the scan is over
C7_Later ==
    pc \in {"m_loop", "m_done"} =>
        \A p \in 1..Len(log) :
            log[p].what = "discarded" =>
                \A h \in (log[p].close + 1)..(Len(lines) - 5) :
                    /\ PairAt(h)
                    /\ \A g \in (log[p].close + 1)..(h - 1) : ~MarkerAt(g)
                    => HeaderKey(h) \in DOMAIN responses

\* an endpoint whose only documented block was discarded gets its rows from
\* the request body or the "No Example" row
C7_Fallback ==
    pc = "m_done" =>
        \A p \in 1..Len(log) : \A e \in Done :
            /\ log[p].what = "discarded"
            /\ KeyOf(endpoints[e]) = log[p].key
            /\ ~Documented(endpoints[e])
            => /\ Len(rows[e]) >= 1
               /\ \A q \in 1..Len(rows[e]) :
                     rows[e][q].source \in {"Inferred from Request", "No Example"}

C8_LatestHeader ==
    \A p \in 1..Len(log) :
        log[p].what = "recorded" =>
            \E h \in 0..(log[p].open - 1) :
                /\ HeaderAt(h)
                /\ \A g \in (h + 1)..(log[p].open - 1) : ~HeaderAt(g)
                /\ log[p].key = HeaderKey(h)

====
